---- MODULE Spec2Model ----
(***************************************************************************)
(* A model of src/dashboard.py, the Icons Player Demand Tracker dashboard: *)
(*   - the opportunity scorer of the "Opportunity Scores" tab and the      *)
(*     pipeline that feeds it (player_dict -> DataFrame -> apply),         *)
(*   - load_csv_data with its status / volume normalization,               *)
(*   - the multi-period aggregator described in spec.md section 4.1.       *)
(*                                                                         *)
(* Python values are tagged records: a str, a number, a list of str,       *)
(* the float NaN (pandas' missing-value marker) and None.                  *)
(* Scores are integers in hundredths (6.70 is 670).                        *)
(***************************************************************************)
EXTENDS Integers, Sequences, FiniteSets, TLC

VARIABLES
    \* ---- Opportunity Scores tab (dashboard.py 992-1046)
    player_dict,         \* the profiles of load_player_details(), in file order
    google_volumes_map,  \* player name -> Google search volume
    all_players_df,      \* pd.DataFrame(player_dict.values()), plus added columns
    scores,              \* the scores the apply of lines 1037-1040 has collected
    call,                \* the latest call of calculate_opportunity_score
    filtered_players,    \* the rows the display filters of lines 1090-1103 keep
    pc,                  \* position in the tab's try block
    \* ---- load_csv_data (dashboard.py 43-79) and the empty-data check (108-127)
    csv_source,          \* what the URL serves: "unavailable" or a CSV text table
    df,                  \* the table load_csv_data returned
    load_message,        \* what load_csv_data reported through st.error
    lpc,                 \* position in the loading part of the script
    \* ---- multi-period aggregator (spec.md 4.1)
    period_data,         \* period label -> records of the periods that loaded
    requested,           \* the requested period labels, in order
    combined,            \* the combined collection
    apc,                 \* position in the aggregator
    \* ---- the st.cache_data(ttl=3600) caches of the two loaders (43, 81)
    clock,               \* seconds since the server process started
    remote,              \* loader -> what its URL serves now
    cache,               \* loader -> the entry st.cache_data keeps for it
    last_call,           \* the latest call of a cached loader
    \* ---- the sidebar filters and filtered_df (dashboard.py 129-240)
    selected,            \* the values of the sidebar widgets
    status_filtered_df,  \* the table of lines 145-150
    filtered_df,         \* the table of lines 214-240
    objects,             \* table variable -> the expression that made its object
    fpc                  \* position in the filtering part of the script

scorer_vars ==
    <<player_dict, google_volumes_map, all_players_df, scores, call, filtered_players, pc>>
loader_vars == <<csv_source, df, load_message, lpc>>
agg_vars == <<period_data, requested, combined, apc>>
cache_vars == <<clock, remote, cache, last_call>>
filter_vars == <<selected, status_filtered_df, filtered_df, objects, fpc>>
vars == <<scorer_vars, loader_vars, agg_vars, cache_vars, filter_vars>>

-----------------------------------------------------------------------------
(* Python values *)

Str(s) == [t |-> "str", s |-> s]
Num(n) == [t |-> "num", n |-> n]
List(q) == [t |-> "list", q |-> q]
NaN == [t |-> "nan"]
None == [t |-> "none"]

\* bool(x)
Truthy(x) ==
    CASE x.t = "str" -> x.s # ""
      [] x.t = "num" -> x.n # 0
      [] x.t = "list" -> x.q # <<>>
      [] x.t = "nan" -> TRUE
      [] x.t = "none" -> FALSE

\* sub in s, for two str
Contains(s, sub) ==
    \E i \in 1..(Len(s) - Len(sub) + 1) : SubSeq(s, i, i + Len(sub) - 1) = sub

\* any(x in s for x in names)
ContainsAny(s, names) == \E x \in names : Contains(s, x)

Digit == [c \in {"0", "1", "2", "3", "4", "5", "6", "7", "8", "9"} |->
            CASE c = "0" -> 0 [] c = "1" -> 1 [] c = "2" -> 2 [] c = "3" -> 3
              [] c = "4" -> 4 [] c = "5" -> 5 [] c = "6" -> 6 [] c = "7" -> 7
              [] c = "8" -> 8 [] c = "9" -> 9]

IsDigits(s) == \A i \in 1..Len(s) : SubSeq(s, i, i) \in DOMAIN Digit

RECURSIVE DigitsValue(_)
DigitsValue(s) ==
    IF s = "" THEN 0
    ELSE 10 * DigitsValue(SubSeq(s, 1, Len(s) - 1)) + Digit[SubSeq(s, Len(s), Len(s))]

RECURSIVE DigitsText(_)
DigitsText(n) ==
    LET last == CHOOSE c \in DOMAIN Digit : Digit[c] = n % 10
    IN IF n < 10 THEN last ELSE DigitsText(n \div 10) \o last

RECURSIVE JoinQuoted(_)
JoinQuoted(q) ==
    IF q = <<>> THEN ""
    ELSE "'" \o Head(q) \o "'" \o (IF Len(q) > 1 THEN ", " ELSE "") \o JoinQuoted(Tail(q))

\* str(x)
PyStr(x) ==
    CASE x.t = "str" -> x.s
      [] x.t = "num" -> IF x.n < 0 THEN "-" \o DigitsText(0 - x.n) ELSE DigitsText(x.n)
      [] x.t = "list" -> "[" \o JoinQuoted(x.q) \o "]"
      [] x.t = "nan" -> "nan"
      [] x.t = "none" -> "None"

\* s.replace(c, '') for a one-character c
RECURSIVE RemoveChar(_, _)
RemoveChar(s, c) ==
    IF s = "" THEN ""
    ELSE LET h == SubSeq(s, 1, 1)
         IN (IF h = c THEN "" ELSE h) \o RemoveChar(SubSeq(s, 2, Len(s)), c)

RECURSIVE LStrip(_)
LStrip(s) == IF s # "" /\ SubSeq(s, 1, 1) = " " THEN LStrip(SubSeq(s, 2, Len(s))) ELSE s

RECURSIVE RStrip(_)
RStrip(s) ==
    IF s # "" /\ SubSeq(s, Len(s), Len(s)) = " "
    THEN RStrip(SubSeq(s, 1, Len(s) - 1)) ELSE s

\* s.strip()
Strip(s) == LStrip(RStrip(s))

UpperCase == "ABCDEFGHIJKLMNOPQRSTUVWXYZ"
LowerCase == "abcdefghijklmnopqrstuvwxyz"

\* s.lower()
RECURSIVE Lower(_)
Lower(s) ==
    IF s = "" THEN ""
    ELSE LET h == SubSeq(s, 1, 1)
             at == {i \in 1..Len(UpperCase) : SubSeq(UpperCase, i, i) = h}
             l == IF at = {} THEN h ELSE LET i == CHOOSE j \in at : TRUE
                                         IN SubSeq(LowerCase, i, i)
         IN l \o Lower(SubSeq(s, 2, Len(s)))

\* float(s) for plain decimal notation (digits with at most one point, blanks
\* around them allowed): ok is FALSE where float raises ValueError, whole is the
\* integer part and frac tells whether the fractional part is non-zero.
ParseFloat(s) ==
    LET u == Strip(s)
        dots == {i \in 1..Len(u) : SubSeq(u, i, i) = "."}
        d == IF dots = {} THEN Len(u) + 1 ELSE CHOOSE i \in dots : \A j \in dots : i <= j
        ip == SubSeq(u, 1, d - 1)
        fp == SubSeq(u, d + 1, Len(u))
        ok == /\ Cardinality(dots) <= 1
              /\ IsDigits(ip) /\ IsDigits(fp)
              /\ Len(ip) + Len(fp) > 0
    IN IF ok THEN [ok |-> TRUE, whole |-> DigitsValue(ip), frac |-> DigitsValue(fp) > 0]
       ELSE [ok |-> FALSE, whole |-> 0, frac |-> FALSE]

\* num > k for a parsed float and an integer k
ParsedGreater(p, k) == p.whole > k \/ (p.whole = k /\ p.frac)

\* row.get(key, default)
Get(row, key, default) == IF key \in DOMAIN row THEN row[key] ELSE default

\* The items a for loop visits: the elements of a list, the characters of a str.
\* Any other value is not iterable (TypeError).
Iterable(x) == x.t \in {"list", "str"}
Items(x) == IF x.t = "list" THEN x.q ELSE [i \in 1..Len(x.s) |-> SubSeq(x.s, i, i)]

Min(a, b) == IF a < b THEN a ELSE b

RECURSIVE SumSeq(_)
SumSeq(q) == IF q = <<>> THEN 0 ELSE Head(q) + SumSeq(Tail(q))

-----------------------------------------------------------------------------
(* calculate_opportunity_score (dashboard.py 856-990) *)

elite_clubs == {"Real Madrid", "Barcelona", "Manchester United", "Manchester City",
                "Liverpool", "Bayern Munich", "PSG", "Chelsea", "Arsenal", "Inter Miami"}
top_clubs == {"Tottenham", "Inter Milan", "AC Milan", "Juventus", "Atletico Madrid",
              "Borussia Dortmund", "Roma", "Napoli", "Al Nassr", "Al Hilal"}
top_nations == {"Brazil", "Argentina", "France", "Germany", "Spain"}
good_nations == {"England", "Italy", "Portugal", "Netherlands", "Belgium", "Croatia"}

\* The weights, in hundredths.
search_weight == 25
instagram_weight == 15
team_weight == 10
prev_team_weight == 10
nation_weight == 8
trophy_weight == 15
sport_weight == 5
position_weight == 5
age_weight_as_nation == nation_weight
age_weight == 7

\* Searches per search point, and the volume at which min(10, ...) caps.
SearchUnit == 1000000
SearchCap == 10 * SearchUnit

\* search_points without the cap of min(10, ...).
search_points_uncapped(google_search_vol) ==
    IF Truthy(google_search_vol) /\ google_search_vol.t = "num" /\ google_search_vol.n > 0
    THEN google_search_vol.n
    ELSE 0

\* 1. search_points, in millionths of a point (the volume itself, capped).
search_points(google_search_vol) ==
    IF Truthy(google_search_vol) /\ google_search_vol.t = "num" /\ google_search_vol.n > 0
    THEN Min(SearchCap, google_search_vol.n)
    ELSE 0

\* num >= k for a parsed float and an integer k
ParsedAtLeast(p, k) == p.whole >= k

\* instagram_points with inclusive tier bounds (>= for >).
instagram_points_inclusive(row) ==
    LET instagram == Get(row, "instagram_followers", Str("N/A"))
    IN IF instagram # Str("N/A") /\ Truthy(instagram)
       THEN IF instagram.t # "str" THEN 0
            ELSE LET num == ParseFloat(RemoveChar(instagram.s, "M"))
                 IN CASE ~num.ok -> 0
                      [] num.ok /\ ParsedAtLeast(num, 300) -> 10
                      [] num.ok /\ ~ParsedAtLeast(num, 300) /\ ParsedAtLeast(num, 100) -> 8
                      [] num.ok /\ ~ParsedAtLeast(num, 100) /\ ParsedAtLeast(num, 50) -> 6
                      [] num.ok /\ ~ParsedAtLeast(num, 50) /\ ParsedAtLeast(num, 10) -> 4
                      [] num.ok /\ ~ParsedAtLeast(num, 10) /\ ParsedAtLeast(num, 1) -> 2
                      [] OTHER -> 1
       ELSE 0

\* 2. instagram_points; the bare except turns every failure into 0.
instagram_points(row) ==
    LET instagram == Get(row, "instagram_followers", Str("N/A"))
    IN IF instagram # Str("N/A") /\ Truthy(instagram)
       THEN IF instagram.t # "str" THEN 0
            ELSE LET num == ParseFloat(RemoveChar(instagram.s, "M"))
                 IN CASE ~num.ok -> 0
                      [] num.ok /\ ParsedGreater(num, 300) -> 10
                      [] num.ok /\ ~ParsedGreater(num, 300) /\ ParsedGreater(num, 100) -> 8
                      [] num.ok /\ ~ParsedGreater(num, 100) /\ ParsedGreater(num, 50) -> 6
                      [] num.ok /\ ~ParsedGreater(num, 50) /\ ParsedGreater(num, 10) -> 4
                      [] num.ok /\ ~ParsedGreater(num, 10) /\ ParsedGreater(num, 1) -> 2
                      [] OTHER -> 1
       ELSE 0

\* team_points with the 'Retired' check made first.
team_points_retired_first(row) ==
    LET team == PyStr(Get(row, "team", Str("")))
    IN CASE Contains(team, "Retired") -> 3
         [] ~Contains(team, "Retired") /\ ContainsAny(team, elite_clubs) -> 10
         [] ~Contains(team, "Retired") /\ ~ContainsAny(team, elite_clubs)
            /\ ContainsAny(team, top_clubs) -> 7
         [] OTHER -> 5

\* 3. team_points
team_points(row) ==
    LET team == PyStr(Get(row, "team", Str("")))
    IN CASE ContainsAny(team, elite_clubs) -> 10
         [] ~ContainsAny(team, elite_clubs) /\ ContainsAny(team, top_clubs) -> 7
         [] ~ContainsAny(team, elite_clubs \cup top_clubs) /\ Contains(team, "Retired") -> 3
         [] OTHER -> 5

\* What one entry of previous_teams adds.
prev_team_add(team) ==
    CASE ContainsAny(team, elite_clubs) -> 2
      [] ~ContainsAny(team, elite_clubs) /\ ContainsAny(team, top_clubs) -> 1
      [] OTHER -> 0

\* 4. prev_team_points (only evaluated where the loop does not raise)
prev_team_points(row) ==
    LET previous_teams == Get(row, "previous_teams", List(<<>>))
        items == Items(previous_teams)
    IN IF Truthy(previous_teams)
       THEN Min(10, SumSeq([i \in 1..Len(items) |-> prev_team_add(items[i])]))
       ELSE 0

\* 5. nation_points
nation_points(row) ==
    LET nationality == Get(row, "nationality", Str(""))
    IN CASE nationality.t = "str" /\ nationality.s \in top_nations -> 10
         [] nationality.t = "str" /\ nationality.s \in good_nations -> 8
         [] OTHER -> 5

\* What one entry of major_trophies adds (the five ifs are independent).
trophy_add(trophy) ==
    (IF Contains(trophy, "World Cup") THEN 10 ELSE 0)
    + (IF Contains(trophy, "Champions League") THEN 9 ELSE 0)
    + (IF Contains(trophy, "Ballon d'Or") THEN 10 ELSE 0)
    + (IF ContainsAny(trophy, {"Euros", "Copa America"}) THEN 6 ELSE 0)
    + (IF Contains(trophy, "NBA Championship") THEN 8 ELSE 0)

\* trophy_points without the halving: min(10, total).
trophy_points_not_halved(row) ==
    LET trophies == Get(row, "major_trophies", List(<<>>))
        items == Items(trophies)
    IN IF Truthy(trophies) /\ trophies # List(<<"N/A">>)
       THEN Min(20, 2 * SumSeq([i \in 1..Len(items) |-> trophy_add(items[i])]))
       ELSE 0

\* 6. trophy_points, in HALF points: min(10, total / 2) is Min(20, total) halves.
trophy_points(row) ==
    LET trophies == Get(row, "major_trophies", List(<<>>))
        items == Items(trophies)
    IN IF Truthy(trophies) /\ trophies # List(<<"N/A">>)
       THEN Min(20, SumSeq([i \in 1..Len(items) |-> trophy_add(items[i])]))
       ELSE 0

\* 7. sport_points
sport_points(row) ==
    LET sport == Get(row, "sport", Str(""))
    IN CASE sport = Str("Football") -> 10
         [] sport = Str("Basketball") -> 7
         [] sport = Str("Tennis") -> 5
         [] sport = Str("Boxing") -> 4
         [] OTHER -> 3

\* position_points without the check of the sport.
position_points_any_sport(row) ==
    LET position == PyStr(Get(row, "position", Str("")))
    IN CASE ContainsAny(position, {"ST", "CF", "RW", "LW"}) -> 10
         [] ~ContainsAny(position, {"ST", "CF", "RW", "LW"})
            /\ ContainsAny(position, {"AM", "CAM"}) -> 8
         [] ~ContainsAny(position, {"ST", "CF", "RW", "LW", "AM", "CAM"})
            /\ Contains(position, "CM") -> 6
         [] ~ContainsAny(position, {"ST", "CF", "RW", "LW", "AM", "CAM", "CM"})
            /\ ContainsAny(position, {"CB", "RB", "LB"}) -> 4
         [] ~ContainsAny(position, {"ST", "CF", "RW", "LW", "AM", "CAM", "CM",
                                    "CB", "RB", "LB"})
            /\ Contains(position, "GK") -> 3
         [] OTHER -> 5

\* 8. position_points
position_points(row) ==
    LET position == PyStr(Get(row, "position", Str("")))
    IN IF Get(row, "sport", None) = Str("Football")
       THEN CASE ContainsAny(position, {"ST", "CF", "RW", "LW"}) -> 10
              [] ~ContainsAny(position, {"ST", "CF", "RW", "LW"})
                 /\ ContainsAny(position, {"AM", "CAM"}) -> 8
              [] ~ContainsAny(position, {"ST", "CF", "RW", "LW", "AM", "CAM"})
                 /\ Contains(position, "CM") -> 6
              [] ~ContainsAny(position, {"ST", "CF", "RW", "LW", "AM", "CAM", "CM"})
                 /\ ContainsAny(position, {"CB", "RB", "LB"}) -> 4
              [] ~ContainsAny(position, {"ST", "CF", "RW", "LW", "AM", "CAM", "CM",
                                         "CB", "RB", "LB"})
                 /\ Contains(position, "GK") -> 3
              [] OTHER -> 5
       ELSE 5

\* 9. age_points; NaN is a float, and every comparison with it is False.
age_points(row) ==
    LET age == Get(row, "age", Num(0))
    IN CASE age.t = "num" /\ 24 <= age.n /\ age.n <= 32 -> 10
         [] age.t = "num" /\ 18 <= age.n /\ age.n <= 23 -> 8
         [] age.t = "num" /\ 33 <= age.n /\ age.n <= 38 -> 6
         [] age.t = "num" /\ (age.n < 18 \/ age.n > 38) -> 3
         [] age.t = "nan" -> 3
         [] age.t \notin {"num", "nan"} /\ Contains(PyStr(age), "Deceased") -> 4
         [] OTHER -> 0

\* The for loops over previous_teams and major_trophies raise TypeError on a
\* truthy value that is not iterable.
ScoreRaises(row) ==
    LET previous_teams == Get(row, "previous_teams", List(<<>>))
        trophies == Get(row, "major_trophies", List(<<>>))
    IN \/ Truthy(previous_teams) /\ ~Iterable(previous_teams)
       \/ Truthy(trophies) /\ trophies # List(<<"N/A">>) /\ ~Iterable(trophies)

\* The nine locals at the return statement.
ScorePoints(row, google_search_vol) ==
    [search |-> search_points(google_search_vol),
     instagram |-> instagram_points(row),
     team |-> team_points(row),
     prev_team |-> prev_team_points(row),
     nation |-> nation_points(row),
     trophy |-> trophy_points(row),
     sport |-> sport_points(row),
     position |-> position_points(row),
     age |-> age_points(row)]

\* score before rounding, in units of 1 / (100 * SearchUnit).
WeightedSum(p) ==
    search_weight * p.search
    + SearchUnit * ( instagram_weight * p.instagram + team_weight * p.team
                     + prev_team_weight * p.prev_team + nation_weight * p.nation
                     + sport_weight * p.sport + position_weight * p.position
                     + age_weight * p.age )
    + (SearchUnit \div 2) * trophy_weight * p.trophy

\* round(score, 2) in hundredths. The float sum of a value that lies exactly
\* between two hundredths falls on either side of it, so both are possible.
Round2(n) ==
    LET q == n \div SearchUnit
        r == n % SearchUnit
    IN CASE 2 * r < SearchUnit -> {q}
         [] 2 * r > SearchUnit -> {q + 1}
         [] OTHER -> {q, q + 1}

NoPoints ==
    [search |-> 0, instagram |-> 0, team |-> 0, prev_team |-> 0, nation |-> 0,
     trophy |-> 0, sport |-> 0, position |-> 0, age |-> 0]

\* The possible outcomes of one call: a raised TypeError, or the returned score.
calculate_opportunity_score(row, google_search_vol) ==
    IF ScoreRaises(row)
    THEN {[raised |-> TRUE, score |-> 0, points |-> NoPoints]}
    ELSE LET p == ScorePoints(row, google_search_vol)
         IN {[raised |-> FALSE, score |-> s, points |-> p] : s \in Round2(WeightedSum(p))}

-----------------------------------------------------------------------------
(* The Opportunity Scores tab: dashboard.py 992-1046 *)

\* pd.DataFrame(player_dict.values()): one row per profile, one column per key
\* that any profile has. A profile without the key gets NaN; in a column whose
\* other values are all numbers, None becomes NaN too (a float64 column).
ToFrame(profiles) ==
    LET columns == UNION {DOMAIN profiles[i] : i \in 1..Len(profiles)}
        cells(c) == {profiles[i][c] : i \in {j \in 1..Len(profiles) : c \in DOMAIN profiles[j]}}
        numeric(c) == /\ \E x \in cells(c) : x.t = "num"
                      /\ \A x \in cells(c) : x.t \in {"num", "nan", "none"}
    IN [i \in 1..Len(profiles) |->
          [c \in columns |->
              CASE c \notin DOMAIN profiles[i] -> NaN
                [] c \in DOMAIN profiles[i] /\ profiles[i][c] = None /\ numeric(c) -> NaN
                [] OTHER -> profiles[i][c]]]

\* find_google_volume raises TypeError when total_names is not iterable.
FindVolumeRaises(player_name, player_info) ==
    /\ player_name.s \notin DOMAIN google_volumes_map
    /\ ~Iterable(Get(player_info, "total_names", List(<<player_name.s>>)))

find_google_volume(player_name, player_info) ==
    LET total_names == Items(Get(player_info, "total_names", List(<<player_name.s>>)))
        hits == {i \in 1..Len(total_names) : total_names[i] \in DOMAIN google_volumes_map}
    IN CASE player_name.s \in DOMAIN google_volumes_map ->
              Num(google_volumes_map[player_name.s])
         [] player_name.s \notin DOMAIN google_volumes_map /\ hits # {} ->
              Num(google_volumes_map[total_names[CHOOSE i \in hits : \A j \in hits : i <= j]])
         [] OTHER -> Num(0)

\* df[column] = values
WithColumn(frame, column, values) ==
    [i \in 1..Len(frame) |->
        [c \in DOMAIN frame[i] \cup {column} |-> IF c = column THEN values[i] ELSE frame[i][c]]]

NoCall ==
    [made |-> FALSE, row |-> <<>>, vol |-> None, raised |-> FALSE, score |-> 0,
     points |-> NoPoints]

\* Lines 995-997: the frame is built; an empty player_dict ends in st.error.
BuildFrame ==
    /\ pc = "start"
    /\ all_players_df' = ToFrame(player_dict)
    /\ pc' = IF player_dict = <<>> THEN "no_data" ELSE "frame"
    /\ UNCHANGED <<player_dict, google_volumes_map, scores, call, filtered_players>>

\* Lines 1030-1034: the google_search_volume column. A raise anywhere in the
\* try block ends in the except of line 1173.
MapVolumes ==
    /\ pc = "frame"
    /\ IF \E i \in 1..Len(all_players_df) :
             FindVolumeRaises(all_players_df[i]["name"], all_players_df[i])
       THEN /\ pc' = "error"
            /\ UNCHANGED all_players_df
       ELSE /\ pc' = "volumes"
            /\ all_players_df' =
                 WithColumn(all_players_df, "google_search_volume",
                            [i \in 1..Len(all_players_df) |->
                               find_google_volume(all_players_df[i]["name"],
                                                  all_players_df[i])])
    /\ UNCHANGED <<player_dict, google_volumes_map, scores, call, filtered_players>>

\* Lines 1037-1040: the apply calls calculate_opportunity_score on the next row.
\* The column is assigned once the last row is scored; a raise abandons it.
ScoreRow ==
    /\ pc = "volumes"
    /\ LET i == Len(scores) + 1
           row == all_players_df[i]
           vol == row["google_search_volume"]
       IN \E o \in calculate_opportunity_score(row, vol) :
            /\ call' = [made |-> TRUE, row |-> row, vol |-> vol, raised |-> o.raised,
                        score |-> o.score, points |-> o.points]
            /\ IF o.raised
               THEN /\ pc' = "error"
                    /\ UNCHANGED <<scores, all_players_df>>
               ELSE /\ scores' = Append(scores, o.score)
                    /\ IF i = Len(all_players_df)
                       THEN /\ pc' = "scored"
                            /\ all_players_df' =
                                 WithColumn(all_players_df, "opportunity_score", scores')
                       ELSE /\ pc' = "volumes"
                            /\ UNCHANGED all_players_df
    /\ UNCHANGED <<player_dict, google_volumes_map, filtered_players>>

\* The orders of the rows 1..n.
Orders(n) == {o \in [1..n -> 1..n] : \A i, j \in 1..n : i # j => o[i] # o[j]}

\* The orders sort_values(column, ascending=False) may give: the sort leaves
\* the order of rows of equal value open.
sort_values(frame, column) ==
    {[k \in 1..Len(frame) |-> frame[o[k]]] :
        o \in {p \in Orders(Len(frame)) :
                 \A k \in 1..(Len(frame) - 1) : frame[p[k]][column] >= frame[p[k + 1]][column]}}

\* Lines 1043-1046: the rows are sorted by score, the highest first, and
\* numbered from 1 in that order.
RankPlayers ==
    /\ pc = "scored"
    /\ \E sorted \in sort_values(all_players_df, "opportunity_score") :
          all_players_df' = WithColumn(sorted, "rank", [k \in 1..Len(sorted) |-> k])
    /\ pc' = "ranked"
    /\ UNCHANGED <<player_dict, google_volumes_map, scores, call, filtered_players>>

\* The columns of a frame.
Columns(frame) == IF frame = <<>> THEN {} ELSE DOMAIN frame[1]

\* The columns lines 1056, 1070 and 1106-1112 read.
display_cols ==
    {"rank", "name", "opportunity_score", "google_search_volume", "instagram_followers",
     "team", "nationality", "position", "age", "sport", "major_trophies"}

\* all_players_df[column].unique()
UniqueCells(frame, column) == {frame[i][column] : i \in 1..Len(frame)}

\* Lines 1048-1112 raise: KeyError for a column no profile has, TypeError when
\* sorted() of line 1070 compares a sport text with a missing sport.
DisplayRaises(frame) ==
    \/ ~(display_cols \subseteq Columns(frame))
    \/ /\ "sport" \in Columns(frame)
       /\ \E x, y \in UniqueCells(frame, "sport") : x # y /\ x.t # "str"

\* frame[keep]: the rows of the frame a mask keeps, in the order they have.
RECURSIVE Keep(_, _, _)
Keep(frame, mask, i) ==
    IF i > Len(frame) THEN <<>>
    ELSE (IF mask[i] THEN <<frame[i]>> ELSE <<>>) \o Keep(frame, mask, i + 1)

\* Lines 1100-1103: the search data filter.
search_data_filtered(frame, search_data_filter) ==
    Keep(frame, [i \in 1..Len(frame) |->
                   \/ search_data_filter = "All Players"
                   \/ /\ search_data_filter = "With Google Search Data Only"
                      /\ frame[i]["google_search_volume"].n > 0
                   \/ /\ search_data_filter = "Without Google Search Data Only"
                      /\ frame[i]["google_search_volume"].n = 0], 1)

\* Lines 1090-1103: the copy of all_players_df after the three filters.
FilteredPlayers(frame, sport_filter, min_score, max_score, search_data_filter) ==
    LET by_sport ==
            IF Str("All") \in sport_filter THEN frame
            ELSE Keep(frame, [i \in 1..Len(frame) |-> frame[i]["sport"] \in sport_filter], 1)
        by_score ==
            Keep(by_sport, [i \in 1..Len(by_sport) |->
                              /\ by_sport[i]["opportunity_score"] >= min_score
                              /\ by_sport[i]["opportunity_score"] <= max_score], 1)
    IN search_data_filtered(by_score, search_data_filter)

\* The positions the score slider of lines 1075-1081 is set to, in hundredths:
\* the full range, or one end moved to the middle.
ScoreRanges == {<<0, 1000>>, <<500, 1000>>, <<0, 500>>}

\* What the multiselect of lines 1068-1072 returns: the default, nothing, or
\* one sport.
SportFilters(frame) ==
    {{Str("All")}, {}} \cup {{sport} : sport \in UniqueCells(frame, "sport")}

\* Lines 1048-1112: the summary, the three filter widgets and the filtered
\* copy; a raise ends in the except of line 1173.
DisplayPlayers ==
    /\ pc = "ranked"
    /\ IF DisplayRaises(all_players_df)
       THEN /\ pc' = "error"
            /\ UNCHANGED filtered_players
       ELSE /\ pc' = "displayed"
            /\ \E sport_filter \in SportFilters(all_players_df) :
               \E score_range \in ScoreRanges :
               \E search_data_filter \in {"All Players", "With Google Search Data Only",
                                          "Without Google Search Data Only"} :
                  filtered_players' =
                      FilteredPlayers(all_players_df, sport_filter, score_range[1],
                                      score_range[2], search_data_filter)
    /\ UNCHANGED <<player_dict, google_volumes_map, all_players_df, scores, call>>

-----------------------------------------------------------------------------
(* The profiles the scorer is run on *)

\* The profile of the scenario of spec.md section 8.
TestPlayer ==
    [name |-> Str("Test Player"), team |-> Str("Real Madrid"), nationality |-> Str("Brazil"),
     age |-> Num(27), position |-> Str("ST"), sport |-> Str("Football"),
     previous_teams |-> List(<<>>), major_trophies |-> List(<<"World Cup">>),
     instagram_followers |-> Str("150M")]

\* A profile whose eight profile sub-scores are all 10.
IconPlayer ==
    [name |-> Str("Icon Player"), team |-> Str("Inter Miami"), nationality |-> Str("Argentina"),
     age |-> Num(32), position |-> Str("RW"), sport |-> Str("Football"),
     previous_teams |-> List(<<"Barcelona", "PSG", "Barcelona B", "Arsenal", "Liverpool">>),
     major_trophies |-> List(<<"World Cup", "Ballon d'Or">>),
     instagram_followers |-> Str("400.5M")]

\* A profile with every optional field missing.
BarePlayer == [name |-> Str("Bare Player")]

\* A complete profile that shares the file with the profile under test.
OtherPlayer ==
    [name |-> Str("Other Player"), team |-> Str("Santos"), nationality |-> Str("Japan"),
     age |-> Num(40), position |-> Str("GK"), sport |-> Str("Football"),
     previous_teams |-> List(<<"Napoli">>), major_trophies |-> List(<<"N/A">>),
     instagram_followers |-> Str("N/A")]

BaseProfiles == {TestPlayer, IconPlayer, BarePlayer}

\* The optional fields, in a fixed order.
Fields ==
    <<"instagram_followers", "team", "previous_teams", "nationality", "major_trophies",
      "sport", "position", "age">>

\* Marks a key the JSON entry does not have.
Missing == [t |-> "missing"]

\* What a field is changed to: Missing, None (a JSON null) or a value.
FieldOptions(f) ==
    <<Missing, None>> \o
    CASE f = "instagram_followers" ->
           <<Str("N/A"), Str("400M"), Str("75M"), Str("5M"), Str("0.5M"), Str("12K"),
             Str("300M"), Str("100M"), Str("50M"), Str("10M"), Str("1M"), Str("")>>
      [] f = "team" ->
           <<Str("AS Roma"), Str("Santos"), Str("Retired"), Str("Retired (Real Madrid)")>>
      [] f = "previous_teams" ->
           <<List(<<"Barcelona">>), List(<<"Juventus", "Santos">>), Str("N/A"),
             List(<<"Chelsea", "PSG", "Arsenal", "Liverpool", "Barcelona", "Real Madrid">>)>>
      [] f = "nationality" -> <<Str("England"), Str("Japan")>>
      [] f = "major_trophies" ->
           <<List(<<"N/A">>), List(<<>>), Str("N/A"), List(<<"Champions League">>),
             List(<<"World Cup 2022", "Ballon d'Or", "Copa America">>)>>
      [] f = "sport" -> <<Str("Basketball"), Str("Tennis")>>
      [] f = "position" -> <<Str("GK"), Str("CAM"), Str("CB"), Str("CM"), Str("DM")>>
      [] f = "age" -> <<Num(21), Num(35), Num(45), Str("Deceased (aged 60)"), Str("27")>>
      [] f = "total_names" -> <<List(<<"T. Player">>), List(<<"The Player", "T. Player">>)>>

\* The Google search volumes a player is listed with (0: not listed).
VolumeOptions == <<0, 790000, 5000000, 12000000, 10000000, -1000>>

\* The Google search volume a base profile is listed with.
BaseVolume(b) ==
    CASE b = TestPlayer -> 5000000
      [] b = IconPlayer -> 12000000
      [] OTHER -> 0

\* The names a player is listed under in the search-volume data, other than
\* the profile's own name: the name in lower case, a longer name that holds
\* it, a name variant, and an unrelated name.
ListingOptions == <<"lower", "longer", "variant", "unrelated">>

ListedName(name, listing) ==
    CASE listing = "exact" -> name
      [] listing = "lower" -> Lower(name)
      [] listing = "longer" -> name \o " Jr"
      [] listing = "variant" -> "T. Player"
      [] OTHER -> "Somebody Else"

\* What can be changed: the fields, the listed volume, the profile's name
\* variants (total_names) and the name the volume is listed under.
VolumeSlot == Len(Fields) + 1
NamesSlot == Len(Fields) + 2
ListingSlot == Len(Fields) + 3
Slots == 1..ListingSlot
SlotKey(i) == IF i = NamesSlot THEN "total_names" ELSE Fields[i]
SlotOptions(i) ==
    CASE i = VolumeSlot -> VolumeOptions
      [] i = ListingSlot -> ListingOptions
      [] OTHER -> FieldOptions(SlotKey(i))

\* How many slots an input differs in from its base profile.
MaxEdits == 2

\* A choice of at most MaxEdits slots with an option for each.
MostOptions == CHOOSE n \in {Len(SlotOptions(i)) : i \in Slots} :
                  \A i \in Slots : Len(SlotOptions(i)) <= n
EditChoices ==
    UNION {{ch \in [F -> 1..MostOptions] : \A i \in F : ch[i] <= Len(SlotOptions(i))} :
           F \in {G \in SUBSET Slots : Cardinality(G) <= MaxEdits}}

\* The base profile b with the fields of ch changed.
EditedProfile(b, ch) ==
    LET slots == DOMAIN ch \ {VolumeSlot, ListingSlot}
        changed == {SlotKey(i) : i \in slots}
        option(k) == LET i == CHOOSE j \in slots : SlotKey(j) = k
                     IN FieldOptions(k)[ch[i]]
        dropped == {k \in changed : option(k) = Missing}
    IN [k \in (DOMAIN b \cup changed) \ dropped |-> IF k \in changed THEN option(k) ELSE b[k]]

EditedVolume(b, ch) ==
    IF VolumeSlot \in DOMAIN ch THEN VolumeOptions[ch[VolumeSlot]] ELSE BaseVolume(b)

\* The profile under test alone in the file, or followed by OtherPlayer.
PlayerDicts(profile) == {<<profile>>, <<profile, OtherPlayer>>}

EditedListing(ch) ==
    IF ListingSlot \in DOMAIN ch THEN ListingOptions[ch[ListingSlot]] ELSE "exact"

VolumeMap(profile, volume, listing) ==
    IF volume = 0 THEN <<>>
    ELSE [n \in {ListedName(profile["name"].s, listing)} |-> volume]

-----------------------------------------------------------------------------
(* load_csv_data: dashboard.py 43-79, and the empty-data check of 108-127 *)

\* A DataFrame: its columns, the dtype of each ("num" for a numeric column,
\* "obj" for an object column) and its rows.
Frame(columns, dtype, rows) == [columns |-> columns, dtype |-> dtype, rows |-> rows]

\* pd.DataFrame()
EmptyFrame == Frame({}, <<>>, <<>>)

\* The texts read_csv takes for a missing value (of its default list, the ones
\* the sources here use).
NaTexts == {"", "N/A"}

\* The texts read_csv and to_numeric take for a number: unsigned digit strings.
NumericText(s) == s # "" /\ IsDigits(s)

\* pd.read_csv on a served table [header, rows]: a column whose cells are all
\* numbers or missing becomes numeric, any other an object column of str and NaN;
\* a table without rows has object columns only.
ReadCsv(csv) ==
    LET n == Len(csv.header)
        index(c) == CHOOSE j \in 1..n : csv.header[j] = c
        cellsOf(j) == {csv.rows[r][j] : r \in 1..Len(csv.rows)}
        numeric(j) == /\ csv.rows # <<>>
                      /\ \A x \in cellsOf(j) : x \in NaTexts \/ NumericText(x)
        cell(j, x) == CASE x \in NaTexts -> NaN
                        [] x \notin NaTexts /\ numeric(j) -> Num(DigitsValue(x))
                        [] OTHER -> Str(x)
        columns == {csv.header[j] : j \in 1..n}
    IN Frame(columns,
             [c \in columns |-> IF numeric(index(c)) THEN "num" ELSE "obj"],
             [r \in 1..Len(csv.rows) |-> [c \in columns |-> cell(index(c), csv.rows[r][index(c)])]])

\* df.columns = df.columns.str.strip()
StripColumns(frame) ==
    LET raw(c) == CHOOSE d \in frame.columns : Strip(d) = c
        columns == {Strip(d) : d \in frame.columns}
    IN Frame(columns,
             [c \in columns |-> frame.dtype[raw(c)]],
             [r \in 1..Len(frame.rows) |-> [c \in columns |-> frame.rows[r][raw(c)]]])

\* The cells of a column, row by row.
ColumnCells(frame, column) == [r \in 1..Len(frame.rows) |-> frame.rows[r][column]]

\* frame[column] = values, with the column's new dtype
SetColumn(frame, column, dtype, values) ==
    LET columns == frame.columns \cup {column}
    IN Frame(columns,
             [c \in columns |-> IF c = column THEN dtype ELSE frame.dtype[c]],
             [r \in 1..Len(frame.rows) |->
                 [c \in columns |-> IF c = column THEN values[r] ELSE frame.rows[r][c]]])

\* One value of pd.to_numeric(..., errors='coerce').fillna(0)
ToNumericOrZero(x) ==
    CASE x.t = "num" -> x
      [] x.t = "str" /\ NumericText(x.s) -> Num(DigitsValue(x.s))
      [] OTHER -> Num(0)

\* One value of .str.strip().str.lower(): NaN for whatever is not a str.
CleanStatus(x) == IF x.t = "str" THEN Str(Lower(Strip(x.s))) ELSE NaN

\* One value of .replace({'sign': 'signed', 'unsign': 'unsigned',
\* 'signed': 'signed', 'unsigned': 'unsigned'}): other values stay as they are.
StandardizeStatus(x) ==
    CASE x = Str("sign") -> Str("signed")
      [] x = Str("unsign") -> Str("unsigned")
      [] x = Str("signed") -> Str("signed")
      [] x = Str("unsigned") -> Str("unsigned")
      [] OTHER -> x

\* .fillna with a capitalised default
FillStatus_capitalised(x) == IF x = NaN THEN Str("Unsigned") ELSE x

\* One value of .fillna('unsigned')
FillStatus(x) == IF x = NaN THEN Str("unsigned") ELSE x

NormalizeStatus(x) == FillStatus(StandardizeStatus(CleanStatus(x)))

\* df['status'] = 'unsigned'
DefaultStatus == Str("unsigned")

\* What lines 52-73 raise on a frame, "" when they raise nothing: KeyError for
\* a volume column that is not there, AttributeError for .str on a status
\* column that is not an object column.
NormalizeError(frame) ==
    LET f == StripColumns(frame)
    IN CASE "july_2025_volume" \notin f.columns -> "'july_2025_volume'"
         [] "july_2025_volume" \in f.columns /\ "has_volume" \notin f.columns -> "'has_volume'"
         [] {"july_2025_volume", "has_volume", "status"} \subseteq f.columns
            /\ f.dtype["status"] # "obj" -> "Can only use .str accessor with string values!"
         [] OTHER -> ""

\* Lines 52-73 on a frame they do not raise on.
Normalize(frame) ==
    LET stripped == StripColumns(frame)
        rows == 1..Len(frame.rows)
        volume == SetColumn(stripped, "july_2025_volume", "num",
                            [r \in rows |->
                               ToNumericOrZero(ColumnCells(stripped, "july_2025_volume")[r])])
        flagged == SetColumn(volume, "has_volume", "num",
                             [r \in rows |->
                                ToNumericOrZero(ColumnCells(volume, "has_volume")[r])])
    IN IF "status" \notin flagged.columns
       THEN SetColumn(flagged, "status", "obj", [r \in rows |-> DefaultStatus])
       ELSE SetColumn(flagged, "status", "obj",
                      [r \in rows |-> NormalizeStatus(ColumnCells(flagged, "status")[r])])

\* What pd.read_csv raises when the URL serves nothing.
FetchError == "HTTP Error 404: Not Found"

\* load_csv_data: the frame returned and the error text shown ("" for none).
\* Every exception of the try block ends in the same return pd.DataFrame().
load_csv_data(source) ==
    CASE source = Str("unavailable") -> [df |-> EmptyFrame, error |-> FetchError]
      [] source # Str("unavailable") /\ NormalizeError(ReadCsv(source)) # "" ->
           [df |-> EmptyFrame, error |-> NormalizeError(ReadCsv(source))]
      [] OTHER -> [df |-> Normalize(ReadCsv(source)), error |-> ""]

\* Lines 52-73 applied to a frame already in memory, with the same except.
Renormalize(frame) == IF NormalizeError(frame) # "" THEN EmptyFrame ELSE Normalize(frame)

\* df.empty
IsEmpty(frame) == frame.columns = {} \/ frame.rows = <<>>

\* Line 105
LoadCsv ==
    /\ lpc = "start"
    /\ df' = load_csv_data(csv_source).df
    /\ load_message' = load_csv_data(csv_source).error
    /\ lpc' = "loaded"
    /\ UNCHANGED csv_source

\* Lines 108-127: an empty frame stops the script with the data loading error;
\* the counts of the else branch raise KeyError on a frame without the
\* actual_player column.
CheckLoaded ==
    /\ lpc = "loaded"
    /\ lpc' = CASE IsEmpty(df) -> "stopped"
                [] ~IsEmpty(df) /\ "actual_player" \notin df.columns -> "crashed"
                [] OTHER -> "ready"
    /\ UNCHANGED <<csv_source, df, load_message>>

-----------------------------------------------------------------------------
(* The tables the URL serves *)

StatusTexts == <<"signed", " Sign ", "UNSIGN", "unsigned", "pending", "", "7">>
VolumeTexts == <<"100", "abc", "">>

\* One served row: player, status, volume, and the has_volume flag that goes
\* with the volume.
ServedRows ==
    {<<"Messi", StatusTexts[i], VolumeTexts[j], IF NumericText(VolumeTexts[j]) THEN "1" ELSE "">> :
        i \in 1..Len(StatusTexts), j \in 1..Len(VolumeTexts)}

FullHeader == <<"actual_player", "status", "july_2025_volume", "has_volume">>

\* The full header, the header with padded names, and the headers with one
\* column left out.
Without(q, j) == [i \in 1..(Len(q) - 1) |-> IF i < j THEN q[i] ELSE q[i + 1]]
Headers ==
    {[drop |-> 0, header |-> FullHeader],
     [drop |-> 0, header |-> <<"actual_player ", " status", "july_2025_volume", " has_volume ">>]}
    \cup {[drop |-> j, header |-> Without(FullHeader, j)] : j \in 1..Len(FullHeader)}

\* How many rows a served table has.
MaxRows == 2

RowLists == UNION {[1..n -> ServedRows] : n \in 0..MaxRows}

Sources ==
    {Str("unavailable")}
    \cup {[header |-> h.header,
           rows |-> [r \in 1..Len(rows) |->
                       IF h.drop = 0 THEN rows[r] ELSE Without(rows[r], h.drop)]] :
          h \in Headers, rows \in RowLists}

-----------------------------------------------------------------------------
(* The multi-period aggregator of spec.md section 4.1 *)

\* The identifying key tuple of a record.
KeyFields ==
    {"player", "name_variation", "country", "country_code", "search_type", "status",
     "merch_category", "merch_term"}

\* The key fields a record may lack.
OptionalKeyFields == {"merch_category", "merch_term"}

GroupKey(rec) == [f \in KeyFields |-> rec[f]]

\* The requested periods up to the first one that is not in the input mapping.
RECURSIVE PresentPeriods_until_absent(_, _)
PresentPeriods_until_absent(data, periods) ==
    IF periods = <<>> \/ Head(periods) \notin DOMAIN data THEN <<>>
    ELSE <<Head(periods)>> \o PresentPeriods_until_absent(data, Tail(periods))

\* The requested periods that are in the input mapping, in requested order.
PresentPeriods(data, periods) == SelectSeq(periods, LAMBDA p : p \in DOMAIN data)

\* The records of the given periods, concatenated.
RECURSIVE ConcatPeriods(_, _)
ConcatPeriods(data, periods) ==
    IF periods = <<>> THEN <<>>
    ELSE data[Head(periods)] \o ConcatPeriods(data, Tail(periods))

\* The comma-joined list of the period names.
RECURSIVE JoinComma(_)
JoinComma(periods) ==
    IF periods = <<>> THEN ""
    ELSE Head(periods) \o (IF Len(periods) > 1 THEN ", " ELSE "") \o JoinComma(Tail(periods))

RECURSIVE MaxSeq(_)
MaxSeq(q) ==
    IF Len(q) = 1 THEN Head(q)
    ELSE LET m == MaxSeq(Tail(q)) IN IF Head(q) > m THEN Head(q) ELSE m

\* The volume of a group, taken from its first record only.
GroupVolume_first(rows) == Head(rows).volume

\* The volume of a group: the sum.
GroupVolume(rows) == SumSeq([i \in 1..Len(rows) |-> rows[i].volume])

\* The has_volume of a group, summed like the volume.
GroupHasVolume_sum(rows) == SumSeq([i \in 1..Len(rows) |-> rows[i].has_volume])

\* The has_volume of a group: the logical OR (max).
GroupHasVolume(rows) == MaxSeq([i \in 1..Len(rows) |-> rows[i].has_volume])

\* The rows that take part in the grouping, when rows with a missing key
\* field are left out.
GroupedRows_dropna(rows) ==
    SelectSeq(rows, LAMBDA r : \A f \in OptionalKeyFields : r[f] # NaN)

\* The rows that take part in the grouping: all of them, a missing optional
\* field being a valid key value.
GroupedRows(rows) == rows

\* One record per key of rows, in the order the keys first appear.
RECURSIVE GroupBy(_, _)
GroupBy(rows, label) ==
    IF rows = <<>> THEN <<>>
    ELSE LET key == GroupKey(Head(rows))
             same == SelectSeq(rows, LAMBDA r : GroupKey(r) = key)
             rest == SelectSeq(rows, LAMBDA r : GroupKey(r) # key)
             merged == [f \in KeyFields \cup {"volume", "has_volume", "period"} |->
                          CASE f = "volume" -> GroupVolume(same)
                            [] f = "has_volume" -> GroupHasVolume(same)
                            [] f = "period" -> label
                            [] OTHER -> key[f]]
         IN <<merged>> \o GroupBy(rest, label)

\* The combined collection for the requested periods.
Aggregate(data, periods) ==
    LET present == PresentPeriods(data, periods)
    IN IF Len(periods) = 1
       THEN ConcatPeriods(data, present)
       ELSE GroupBy(GroupedRows(ConcatPeriods(data, present)), JoinComma(present))

Combine ==
    /\ apc = "start"
    /\ combined' = Aggregate(period_data, requested)
    /\ apc' = "done"
    /\ UNCHANGED <<period_data, requested>>

\* A new selection of periods is made.
Request ==
    /\ apc = "done"
    /\ \E q \in {<<"July">>, <<"August", "September">>, <<"July", "August", "September">>} :
         /\ q # requested
         /\ requested' = q
    /\ combined' = <<>>
    /\ apc' = "start"
    /\ UNCHANGED period_data

-----------------------------------------------------------------------------
(* The periods the aggregator is run on *)

Periods == <<"July", "August", "September">>

\* A record of player X in Brazil: a name search, without merchandise
\* category and term, or a merchandise search.
Record(merch, volume, period) ==
    [player |-> "X", name_variation |-> "X", country |-> "Brazil", country_code |-> "BR",
     search_type |-> IF merch THEN "Merchandise" ELSE "Name Only",
     status |-> "unsigned",
     merch_category |-> IF merch THEN Str("Shirts") ELSE NaN,
     merch_term |-> IF merch THEN Str("X shirt") ELSE NaN,
     volume |-> volume,
     has_volume |-> IF volume > 0 THEN 1 ELSE 0,
     period |-> period]

PeriodRecords(period) ==
    {Record(m, v, period) : m \in BOOLEAN, v \in {50, 100}} \cup {Record(FALSE, 0, period)}

\* How many records a period has.
MaxRecords == 2

RecordLists(period) == UNION {[1..n -> PeriodRecords(period)] : n \in 0..MaxRecords}

\* The input mappings: July and August each absent or with up to MaxRecords
\* records, September absent or with one record.
PeriodData ==
    {[p \in present |-> CASE p = "July" -> july [] p = "August" -> august
                          [] OTHER -> <<Record(FALSE, 100, "September")>>] :
        present \in SUBSET {"July", "August", "September"},
        july \in RecordLists("July"), august \in RecordLists("August")}


-----------------------------------------------------------------------------
(* The cached loaders: @st.cache_data(ttl=3600) of dashboard.py 43 and 81 *)

Loaders == {"load_csv_data", "load_player_details"}

\* ttl=3600: the seconds a cache entry lives.
ttl == 3600

\* What response.json() raises on a body that is not JSON.
JsonError == "Expecting value: line 1 column 1 (char 0)"

\* What lines 86-91 raise on what the URL serves, "" when they raise nothing:
\* the decoding error, KeyError for a document without 'players' and KeyError
\* for a profile without 'name'.
PlayerError(source) ==
    CASE source = Str("unavailable") -> JsonError
      [] source # Str("unavailable") /\ "players" \notin DOMAIN source -> "'players'"
      [] source # Str("unavailable") /\ "players" \in DOMAIN source
         /\ (\E i \in 1..Len(source.players) : "name" \notin DOMAIN source.players[i]) -> "'name'"
      [] OTHER -> ""

\* load_player_details on what the URL serves: the profiles of data['players']
\* by name, in the order the names first appear, a later profile of the same
\* name replacing the earlier one; {} on any exception.
load_player_details(source) ==
    IF PlayerError(source) # "" THEN <<>>
    ELSE LET players == source.players
             last(i) == \A j \in (i + 1)..Len(players) : players[j]["name"] # players[i]["name"]
             first(i) == \A j \in 1..(i - 1) : players[j]["name"] # players[i]["name"]
             firsts == SelectSeq([i \in 1..Len(players) |-> i], first)
         IN [k \in 1..Len(firsts) |->
               players[CHOOSE i \in 1..Len(players) :
                          last(i) /\ players[i]["name"] = players[firsts[k]]["name"]]]

\* The body of a cached loader, run on what its URL serves.
Fetch(loader, source) ==
    IF loader = "load_csv_data" THEN load_csv_data(source).df ELSE load_player_details(source)

\* What the body of a cached loader raises inside its try block.
LoaderError(loader, source) ==
    IF loader = "load_csv_data" THEN load_csv_data(source).error ELSE PlayerError(source)

\* An except clause that handles the failures of the request only.
Caught_fetch_failures(error) == error \in {FetchError, JsonError}

\* except Exception (lines 77 and 95): every exception the try blocks raise
\* (HTTPError, JSONDecodeError, KeyError, AttributeError) is an Exception.
Caught(error) == error # ""

\* The entry of a loader that has not been called.
NoEntry(loader) ==
    [cached |-> FALSE, at |-> 0,
     value |-> IF loader = "load_csv_data" THEN EmptyFrame ELSE <<>>, message |-> ""]

\* A cache that keeps the results of bodies that raised nothing.
Store_successes(entry, error, result, now) ==
    IF error # "" THEN entry
    ELSE [cached |-> TRUE, at |-> now, value |-> result, message |-> error]

\* st.cache_data stores what the body returned, with the st.error or
\* st.warning element the body showed, whatever the body did to get there.
Store(entry, error, result, now) ==
    [cached |-> TRUE, at |-> now, value |-> result, message |-> error]

\* The cache never answers: every call runs the body.
Fresh_never(entry, now) == FALSE

\* st.cache_data keeps an entry for ttl seconds from the moment it was stored
\* (a cachetools TTLCache: the entry is valid while now < stored + ttl).
Fresh(entry, now) == entry.cached /\ now < entry.at + ttl

NoLoad ==
    [made |-> FALSE, loader |-> "", at |-> 0, fetched |-> FALSE, had |-> FALSE,
     stored |-> 0, same |-> FALSE, served |-> FALSE, error |-> "", raised |-> FALSE,
     message |-> "", empty |-> FALSE, held_empty |-> FALSE, available |-> FALSE]

\* A call of a cached loader: a fresh entry answers it, otherwise the body runs
\* and what it returns is stored; an exception the body does not catch leaves
\* the call and nothing is stored. last_call records the time, whether the body
\* ran, the entry found, whether the result is the entry's value, whether it is
\* what the body gives on what the URL serves now, what the body raised inside
\* its try block, whether that left the loader, and the message shown (the
\* stored message is shown again when the entry answers).
CallLoader ==
    \E loader \in Loaders :
        LET entry == cache[loader]
            hit == Fresh(entry, clock)
            error == IF hit THEN "" ELSE LoaderError(loader, remote[loader])
            raised == error # "" /\ ~Caught(error)
            result == IF hit THEN entry.value ELSE Fetch(loader, remote[loader])
        IN /\ cache' = IF hit \/ raised THEN cache
                       ELSE [cache EXCEPT ![loader] = Store(entry, error, result, clock)]
           /\ last_call' = [made |-> TRUE, loader |-> loader, at |-> clock,
                            fetched |-> ~hit, had |-> entry.cached, stored |-> entry.at,
                            same |-> entry.cached /\ result = entry.value,
                            served |-> result = Fetch(loader, remote[loader]),
                            error |-> error, raised |-> raised,
                            message |-> IF hit THEN entry.message
                                        ELSE IF raised THEN "" ELSE error,
                            empty |-> ~raised /\ result = NoEntry(loader).value,
                            held_empty |-> entry.cached /\ entry.value = NoEntry(loader).value,
                            available |-> LoaderError(loader, remote[loader]) = ""]
           /\ UNCHANGED <<clock, remote>>

\* How far the clock runs.
MaxClock == 4800

\* The time between two interactions.
Pauses == {1200, 2400, 3600}

\* Time passes between two runs of the script.
Tick ==
    \E d \in Pauses :
        /\ clock + d <= MaxClock
        /\ clock' = clock + d
        /\ UNCHANGED <<remote, cache, last_call>>

\* What the two URLs serve.
Served(loader) ==
    IF loader = "load_csv_data"
    THEN {Str("unavailable"),
          [header |-> FullHeader, rows |-> <<<<"Messi", "signed", "100", "1">>>>],
          [header |-> <<"actual_player", "status", "has_volume">>,
           rows |-> <<<<"Messi", "signed", "1">>>>]}
    ELSE {Str("unavailable"),
          [players |-> <<TestPlayer, OtherPlayer, TestPlayer>>],
          [players |-> <<TestPlayer, [team |-> Str("Santos")]>>]}

\* The file behind a URL is replaced, or the URL stops or starts answering.
Publish ==
    \E loader \in Loaders : \E source \in Served(loader) :
        /\ source # remote[loader]
        /\ remote' = [remote EXCEPT ![loader] = source]
        /\ UNCHANGED <<clock, cache, last_call>>

CacheIdle ==
    /\ clock = 0
    /\ remote = [loader \in Loaders |-> Str("unavailable")]
    /\ cache = [loader \in Loaders |-> NoEntry(loader)]
    /\ last_call = NoLoad

-----------------------------------------------------------------------------
(* The sidebar filters and filtered_df: dashboard.py 129-240 *)

\* The rows of a table a boolean mask keeps, from row i on.
RECURSIVE Pick(_, _, _)
Pick(rows, mask, i) ==
    IF i > Len(rows) THEN <<>>
    ELSE (IF mask[i] THEN <<rows[i]>> ELSE <<>>) \o Pick(rows, mask, i + 1)

\* frame[mask]: a new table of the rows the mask keeps.
Index(frame, mask) == Frame(frame.columns, frame.dtype, Pick(frame.rows, mask, 1))

\* The table an indexing is done on, after an indexing that worked in place.
SourceAfter_in_place(source, result) == result

\* The table an indexing is done on, after the indexing: frame[mask] leaves
\* frame as it is.
SourceAfter(source, result) == source

\* frame[column].unique()
Unique(frame, column) == {frame.rows[r][column] : r \in 1..Len(frame.rows)}

\* frame[column].isin(values)
IsIn(frame, column, values) == [r \in 1..Len(frame.rows) |-> frame.rows[r][column] \in values]

\* frame[column] == value
Equals(frame, column, value) == [r \in 1..Len(frame.rows) |-> frame.rows[r][column] = value]

\* A range test that leaves out both ends.
Between_exclusive(frame, column, range) ==
    [r \in 1..Len(frame.rows) |->
        frame.rows[r][column].n > range[1] /\ frame.rows[r][column].n < range[2]]

\* Lines 218-219: (frame[column] >= range[0]) & (frame[column] <= range[1])
Between(frame, column, range) ==
    [r \in 1..Len(frame.rows) |->
        frame.rows[r][column].n >= range[1] /\ frame.rows[r][column].n <= range[2]]

\* Lines 145-150: the table of the selected status; df itself for 'All'.
StatusFiltered(frame, selected_status) ==
    CASE selected_status = "Signed" -> Index(frame, Equals(frame, "status", Str("signed")))
      [] selected_status = "Unsigned" -> Index(frame, Equals(frame, "status", Str("unsigned")))
      [] OTHER -> frame

\* Lines 184 and 193: the merchandise categories of the table.
MerchCategories(frame) == Unique(frame, "merch_category") \ {NaN}

\* Lines 198-199: int(df['july_2025_volume'].min()) and .max()
MinVolume(frame) ==
    CHOOSE v \in {x.n : x \in Unique(frame, "july_2025_volume")} :
        \A x \in Unique(frame, "july_2025_volume") : v <= x.n
MaxVolume(frame) ==
    CHOOSE v \in {x.n : x \in Unique(frame, "july_2025_volume")} :
        \A x \in Unique(frame, "july_2025_volume") : v >= x.n

\* The positions the slider of lines 200-206 is set to: the full range, or one
\* end moved to the middle position.
MiddleVolume == 50
VolumeRanges(frame) ==
    {<<MinVolume(frame), MaxVolume(frame)>>}
    \cup {<<lo, hi>> \in {<<MiddleVolume, MaxVolume(frame)>>, <<MinVolume(frame), MiddleVolume>>} :
            MinVolume(frame) <= lo /\ lo <= hi /\ hi <= MaxVolume(frame)}

NoSelection ==
    [selected_status |-> "All", selected_countries |-> {}, selected_players |-> {},
     selected_search_types |-> {}, selected_merch_categories |-> {},
     volume_range |-> <<0, 1000>>, only_with_volume |-> TRUE]

NoObjects == [status_filtered_df |-> "", filtered_df |-> ""]

\* Lines 134-211: the sidebar runs, the widgets return what the user selected.
Sidebar ==
    /\ fpc = "loaded"
    /\ \E selected_status \in {"All", "Signed", "Unsigned"} :
       \E selected_countries \in SUBSET Unique(df, "country") :
         LET by_status == StatusFiltered(df, selected_status)
             available_players ==
                 Unique(Index(by_status, IsIn(by_status, "country", selected_countries)),
                        "actual_player")
         IN \E selected_players \in SUBSET available_players :
            \E selected_search_types \in SUBSET Unique(df, "search_type") :
            \E selected_merch_categories \in
                  (IF Str("Merchandise") \in selected_search_types
                   THEN SUBSET MerchCategories(df) ELSE {MerchCategories(df)}) :
            \E volume_range \in VolumeRanges(df) :
            \E only_with_volume \in BOOLEAN :
               /\ selected' =
                    [selected_status |-> selected_status,
                     selected_countries |-> selected_countries,
                     selected_players |-> selected_players,
                     selected_search_types |-> selected_search_types,
                     selected_merch_categories |-> selected_merch_categories,
                     volume_range |-> volume_range,
                     only_with_volume |-> only_with_volume]
               /\ status_filtered_df' = by_status
               /\ objects' = [objects EXCEPT !.status_filtered_df =
                                 IF selected_status = "All" THEN "df" ELSE "line 146-148"]
               /\ df' = SourceAfter(df, by_status)
    /\ fpc' = "sidebar"
    /\ UNCHANGED <<filtered_df, csv_source, load_message, lpc>>

\* Lines 214-220: country, player, search type and volume range.
ApplyFilters ==
    /\ fpc = "sidebar"
    /\ LET country == IsIn(df, "country", selected.selected_countries)
           player == IsIn(df, "actual_player", selected.selected_players)
           type == IsIn(df, "search_type", selected.selected_search_types)
           volume == Between(df, "july_2025_volume", selected.volume_range)
           result ==
               Index(df, [r \in 1..Len(df.rows) |->
                            country[r] /\ player[r] /\ type[r] /\ volume[r]])
       IN /\ filtered_df' = result
          /\ df' = SourceAfter(df, result)
    /\ objects' = [objects EXCEPT !.filtered_df = "line 214"]
    /\ fpc' = "main"
    /\ UNCHANGED <<selected, status_filtered_df, csv_source, load_message, lpc>>

\* Lines 222-226: the status filter.
ApplyStatus ==
    /\ fpc = "main"
    /\ filtered_df' = StatusFiltered(filtered_df, selected.selected_status)
    /\ objects' = [objects EXCEPT !.filtered_df =
                      IF selected.selected_status = "All" THEN @ ELSE "line 224-226"]
    /\ fpc' = "status"
    /\ UNCHANGED <<selected, status_filtered_df, loader_vars>>

\* The mask that tests the category of every row.
merch_filter_every_row(frame, selected_merch_categories) ==
    IsIn(frame, "merch_category", selected_merch_categories)

\* The mask of lines 233-236.
merch_filter(frame, selected_merch_categories) ==
    [r \in 1..Len(frame.rows) |->
        \/ frame.rows[r]["search_type"] # Str("Merchandise")
        \/ frame.rows[r]["merch_category"] \in selected_merch_categories]

\* Lines 229-237: the merchandise category filter.
MerchFiltered(frame, selection) ==
    IF Str("Merchandise") \in selection.selected_search_types
       /\ selection.selected_merch_categories # {}
    THEN Index(frame, merch_filter(frame, selection.selected_merch_categories))
    ELSE frame

ApplyMerch ==
    /\ fpc = "status"
    /\ filtered_df' = MerchFiltered(filtered_df, selected)
    /\ objects' = [objects EXCEPT !.filtered_df =
                      IF Str("Merchandise") \in selected.selected_search_types
                         /\ selected.selected_merch_categories # {}
                      THEN "line 237" ELSE @]
    /\ fpc' = "merch"
    /\ UNCHANGED <<selected, status_filtered_df, loader_vars>>

\* Lines 239-240: only rows with volume.
ApplyVolume ==
    /\ fpc = "merch"
    /\ filtered_df' = IF selected.only_with_volume
                      THEN Index(filtered_df, Equals(filtered_df, "has_volume", Num(1)))
                      ELSE filtered_df
    /\ objects' = [objects EXCEPT !.filtered_df =
                      IF selected.only_with_volume THEN "line 240" ELSE @]
    /\ fpc' = "filtered"
    /\ UNCHANGED <<selected, status_filtered_df, loader_vars>>

\* A widget is changed: the script runs again from the top, with the table
\* the cache returns.
Rerun ==
    /\ fpc = "filtered"
    /\ fpc' = "loaded"
    /\ selected' = NoSelection
    /\ status_filtered_df' = EmptyFrame
    /\ filtered_df' = EmptyFrame
    /\ objects' = NoObjects
    /\ UNCHANGED loader_vars

\* The rows of the served file.
FilterHeader ==
    <<"actual_player", "status", "july_2025_volume", "has_volume", "country", "search_type",
      "merch_category">>

FilterRows ==
    << <<"Messi", "signed", "100", "1", "Brazil", "Merchandise", "Shirts">>,
       <<"Pele", "unsigned", "0", "0", "Spain", "Name Only", "">>,
       <<"Messi", "signed", "50", "1", "Spain", "Merchandise", "Boots">>,
       <<"Pele", "pending", "20", "1", "Brazil", "Merchandise", "">>,
       <<"Messi", "Unsign", "70", "1", "Brazil", "Name Only", "">> >>

\* How many of the rows the served file has.
MaxTableRows == 4

\* The served files: at least two rows, so that the slider of line 200 has
\* min_vol < max_vol.
FilterSources ==
    {[header |-> FilterHeader, rows |-> SubSeq(FilterRows, 1, n)] :
        n \in 2..(IF MaxTableRows < Len(FilterRows) THEN MaxTableRows ELSE Len(FilterRows))}

FilterIdle ==
    /\ selected = NoSelection
    /\ status_filtered_df = EmptyFrame
    /\ filtered_df = EmptyFrame
    /\ objects = NoObjects
    /\ fpc = "idle"

LoaderIdle ==
    /\ csv_source = Str("unavailable") /\ df = EmptyFrame /\ load_message = ""
    /\ lpc = "idle"

ScorerIdle ==
    /\ player_dict = <<>> /\ google_volumes_map = <<>> /\ all_players_df = <<>>
    /\ scores = <<>> /\ call = NoCall /\ filtered_players = <<>> /\ pc = "idle"

AggIdle ==
    /\ period_data = <<>> /\ requested = <<>> /\ combined = <<>> /\ apc = "idle"

Init ==
    /\ \/ \E b \in BaseProfiles, ch \in EditChoices :
             /\ player_dict \in PlayerDicts(EditedProfile(b, ch))
             /\ google_volumes_map =
                  VolumeMap(EditedProfile(b, ch), EditedVolume(b, ch), EditedListing(ch))
       \/ /\ player_dict = <<>>
          /\ google_volumes_map = <<>>
    /\ all_players_df = <<>>
    /\ scores = <<>>
    /\ call = NoCall
    /\ filtered_players = <<>>
    /\ pc = "start"
    /\ LoaderIdle
    /\ AggIdle
    /\ CacheIdle
    /\ FilterIdle

Next ==
    \/ BuildFrame /\ UNCHANGED <<loader_vars, agg_vars, cache_vars, filter_vars>>
    \/ MapVolumes /\ UNCHANGED <<loader_vars, agg_vars, cache_vars, filter_vars>>
    \/ ScoreRow /\ UNCHANGED <<loader_vars, agg_vars, cache_vars, filter_vars>>
    \/ RankPlayers /\ UNCHANGED <<loader_vars, agg_vars, cache_vars, filter_vars>>
    \/ DisplayPlayers /\ UNCHANGED <<loader_vars, agg_vars, cache_vars, filter_vars>>

Spec == Init /\ [][Next]_vars

InitLoad ==
    /\ csv_source \in Sources
    /\ df = EmptyFrame
    /\ load_message = ""
    /\ lpc = "start"
    /\ ScorerIdle
    /\ AggIdle
    /\ CacheIdle
    /\ FilterIdle

NextLoad ==
    \/ LoadCsv /\ UNCHANGED <<scorer_vars, agg_vars, cache_vars, filter_vars>>
    \/ CheckLoaded /\ UNCHANGED <<scorer_vars, agg_vars, cache_vars, filter_vars>>

SpecLoad == InitLoad /\ [][NextLoad]_vars

InitAgg ==
    /\ period_data \in PeriodData
    /\ requested \in {<<"July", "August">>, <<"August", "July">>}
    /\ combined = <<>>
    /\ apc = "start"
    /\ ScorerIdle
    /\ LoaderIdle
    /\ CacheIdle
    /\ FilterIdle

NextAgg ==
    \/ Combine /\ UNCHANGED <<scorer_vars, loader_vars, cache_vars, filter_vars>>
    \/ Request /\ UNCHANGED <<scorer_vars, loader_vars, cache_vars, filter_vars>>

SpecAgg == InitAgg /\ [][NextAgg]_vars

InitCache ==
    /\ clock = 0
    /\ remote \in [Loaders -> UNION {Served(loader) : loader \in Loaders}]
    /\ \A loader \in Loaders : remote[loader] \in Served(loader)
    /\ cache = [loader \in Loaders |-> NoEntry(loader)]
    /\ last_call = NoLoad
    /\ ScorerIdle
    /\ LoaderIdle
    /\ AggIdle
    /\ FilterIdle

NextCache ==
    \/ CallLoader /\ UNCHANGED <<scorer_vars, loader_vars, agg_vars, filter_vars>>
    \/ Tick /\ UNCHANGED <<scorer_vars, loader_vars, agg_vars, filter_vars>>
    \/ Publish /\ UNCHANGED <<scorer_vars, loader_vars, agg_vars, filter_vars>>

SpecCache == InitCache /\ [][NextCache]_vars

\* The script has loaded a non-empty table (line 105) and passed the check of
\* line 108.
InitFilter ==
    /\ csv_source \in FilterSources
    /\ df = load_csv_data(csv_source).df
    /\ load_message = ""
    /\ lpc = "ready"
    /\ selected = NoSelection
    /\ status_filtered_df = EmptyFrame
    /\ filtered_df = EmptyFrame
    /\ objects = NoObjects
    /\ fpc = "loaded"
    /\ ScorerIdle
    /\ AggIdle
    /\ CacheIdle

NextFilter ==
    \/ Sidebar /\ UNCHANGED <<scorer_vars, agg_vars, cache_vars>>
    \/ ApplyFilters /\ UNCHANGED <<scorer_vars, agg_vars, cache_vars>>
    \/ ApplyStatus /\ UNCHANGED <<scorer_vars, agg_vars, cache_vars>>
    \/ ApplyMerch /\ UNCHANGED <<scorer_vars, agg_vars, cache_vars>>
    \/ ApplyVolume /\ UNCHANGED <<scorer_vars, agg_vars, cache_vars>>
    \/ Rerun /\ UNCHANGED <<scorer_vars, agg_vars, cache_vars>>

SpecFilter == InitFilter /\ [][NextFilter]_vars

-----------------------------------------------------------------------------
(* Properties of the scorer *)

\* The profile fields of the row of the latest call are those of profile.
CallIsFor(profile) ==
    /\ call.made
    /\ DOMAIN call.row = DOMAIN profile \cup {"google_search_volume"}
    /\ \A k \in DOMAIN profile : call.row[k] = profile[k]

\* The row of the latest call holds NaN, pandas' marker of a missing value,
\* or None in some profile field.
CallHasMissingField ==
    /\ call.made
    /\ \E i \in 1..Len(Fields) :
          Fields[i] \in DOMAIN call.row /\ call.row[Fields[i]] \in {NaN, None}

\* C1: every call of calculate_opportunity_score returns a value v with
\* 0 <= v <= 10 (0..1000 hundredths), whatever the fields of the profile hold.
C1_ScoreInRange ==
    call.made => ~call.raised /\ 0 <= call.score /\ call.score <= 1000

\* C2, as stated: the scenario profile with search volume 5,000,000 has the
\* sub-scores 5.0, 6, 10, 0, 10, 5, 10, 10, 10 and the score 6.40.
C2_ScenarioAsStated ==
    CallIsFor(TestPlayer) /\ call.vol = Num(5000000) =>
        /\ ~call.raised
        /\ call.points = [search |-> 5000000, instagram |-> 6, team |-> 10, prev_team |-> 0,
                          nation |-> 10, trophy |-> 10, sport |-> 10, position |-> 10,
                          age |-> 10]
        /\ call.score = 640

\* C2, amended: the scenario profile with search volume 5,000,000 has the
\* sub-scores 5.0, 8 (150M lies in the >100 tier), 10, 0, 10, 5, 10, 10, 10
\* and the score 6.70.
C2_Scenario ==
    CallIsFor(TestPlayer) /\ call.vol = Num(5000000) =>
        /\ ~call.raised
        /\ call.points = [search |-> 5000000, instagram |-> 8, team |-> 10, prev_team |-> 0,
                          nation |-> 10, trophy |-> 10, sport |-> 10, position |-> 10,
                          age |-> 10]
        /\ call.score = 670

C2_ScenarioScored == CallIsFor(TestPlayer) /\ call.vol = Num(5000000) /\ ~call.raised

AllPointsTen(p) ==
    /\ p.search = SearchCap /\ p.trophy = 20
    /\ p.instagram = 10 /\ p.team = 10 /\ p.prev_team = 10 /\ p.nation = 10
    /\ p.sport = 10 /\ p.position = 10 /\ p.age = 10

\* C3: the nine weights sum to 1.00 (100 hundredths), and a call whose nine
\* sub-scores are all 10 returns exactly 10.
C3_WeightsSumToOne ==
    /\ search_weight + instagram_weight + team_weight + prev_team_weight + nation_weight
       + trophy_weight + sport_weight + position_weight + age_weight = 100
    /\ call.made /\ ~call.raised /\ AllPointsTen(call.points) => call.score = 1000

C3_AllTenScored == call.made /\ ~call.raised /\ AllPointsTen(call.points)

\* C6: a call whose row has a profile field missing, or holding a
\* missing-value marker, does not raise: a score is returned for that player.
C6_NeverRaisesOnMissing ==
    CallHasMissingField => ~call.raised /\ pc # "error"

-----------------------------------------------------------------------------
(* Properties of load_csv_data *)

\* The columns spec.md section 6 requires, of the ones the served tables have.
RequiredColumns == {"actual_player", "july_2025_volume", "has_volume"}

\* The served table lacks a required column.
SchemaViolation ==
    /\ csv_source # Str("unavailable")
    /\ ~(RequiredColumns \subseteq {Strip(csv_source.header[j]) : j \in 1..Len(csv_source.header)})

\* C4: after load_csv_data every row's status is 'signed' or 'unsigned'.
C4_StatusSignedOrUnsigned ==
    lpc # "start" =>
        \A r \in 1..Len(df.rows) : df.rows[r]["status"] \in {Str("signed"), Str("unsigned")}

\* C5: normalizing the table load_csv_data returned once more yields the
\* identical table.
C5_NormalizationIdempotent == lpc # "start" => Renormalize(df) = df

\* A table was loaded that normalization had to change.
C5_NormalizedTable ==
    /\ lpc = "loaded" /\ ~IsEmpty(df)
    /\ df # StripColumns(ReadCsv(csv_source))
    /\ \E r \in 1..Len(df.rows) :
          /\ csv_source.rows[r] \in ServedRows
          /\ csv_source.rows[r][2] \notin {"signed", "unsigned"}
          /\ ~NumericText(csv_source.rows[r][3])

\* C7: a served table that lacks a required column makes load_csv_data return
\* something else than it returns for a source that cannot be fetched.
C7_SchemaViolationDistinct ==
    lpc # "start" /\ SchemaViolation => df # load_csv_data(Str("unavailable")).df

-----------------------------------------------------------------------------
(* Properties of the aggregator *)

\* The input records of the contributing periods.
InputRecords == ConcatPeriods(period_data, PresentPeriods(period_data, requested))

MultiPeriodDone == apc = "done" /\ Len(requested) > 1

SameKey(rows, key) == {i \in 1..Len(rows) : GroupKey(rows[i]) = key}

RECURSIVE SumOver(_, _)
SumOver(f, S) ==
    IF S = {} THEN 0 ELSE LET x == CHOOSE y \in S : TRUE IN f[x] + SumOver(f, S \ {x})

\* C8: in a multi-period aggregation the volumes of the output records sum to
\* the volumes of the input records of the contributing periods.
C8_VolumeConserved ==
    MultiPeriodDone =>
        SumOver([j \in 1..Len(combined) |-> combined[j].volume], 1..Len(combined))
        = SumOver([i \in 1..Len(InputRecords) |-> InputRecords[i].volume], 1..Len(InputRecords))

\* Two periods contributed volume and records were merged.
C8_RecordsMerged ==
    /\ MultiPeriodDone
    /\ Len(combined) < Len(InputRecords)
    /\ \E p, q \in DOMAIN period_data :
          /\ p # q
          /\ \E i \in 1..Len(period_data[p]) : period_data[p][i].volume > 0
          /\ \E i \in 1..Len(period_data[q]) : period_data[q][i].volume > 0

\* C9: a multi-period aggregation holds exactly one record per distinct key
\* tuple of the input, with the sum of the volumes and the maximum of the
\* has_volume flags of the input records of that key.
C9_OneRecordPerKey ==
    MultiPeriodDone =>
        /\ \A i \in 1..Len(InputRecords) :
              LET key == GroupKey(InputRecords[i])
                  ins == SameKey(InputRecords, key)
              IN /\ Cardinality(SameKey(combined, key)) = 1
                 /\ \A j \in SameKey(combined, key) :
                       /\ combined[j].volume =
                            SumOver([k \in ins |-> InputRecords[k].volume], ins)
                       /\ \A k \in ins : combined[j].has_volume >= InputRecords[k].has_volume
                       /\ \E k \in ins : combined[j].has_volume = InputRecords[k].has_volume
        /\ \A j \in 1..Len(combined) : SameKey(InputRecords, GroupKey(combined[j])) # {}

\* July volume 100 and August volume 50 of one key were combined into one row
\* of volume 150 with has_volume 1.
C9_JulyAugustCombined ==
    /\ MultiPeriodDone
    /\ "July" \in DOMAIN period_data /\ "August" \in DOMAIN period_data
    /\ period_data["July"] = <<Record(FALSE, 100, "July")>>
    /\ period_data["August"] = <<Record(FALSE, 50, "August")>>
    /\ requested = <<"July", "August">>
    /\ Len(combined) = 1
    /\ combined[1].volume = 150 /\ combined[1].has_volume = 1

\* C10: in a multi-period aggregation an input record without merchandise
\* category is in the output exactly once, under its key.
C10_MissingKeyKeptOnce ==
    MultiPeriodDone =>
        \A i \in 1..Len(InputRecords) :
            InputRecords[i].merch_category = NaN =>
                Cardinality(SameKey(combined, GroupKey(InputRecords[i]))) = 1

\* A name search without merchandise category went through a multi-period
\* aggregation.
C10_MissingKeyAggregated ==
    /\ MultiPeriodDone
    /\ \E i \in 1..Len(InputRecords) :
          /\ InputRecords[i].merch_category = NaN
          /\ InputRecords[i].search_type # "Merchandise"
    /\ \E i \in 1..Len(InputRecords) : InputRecords[i].merch_category # NaN

\* The requested periods, and the ones of them the input mapping has.
RequestedSet == {requested[i] : i \in 1..Len(requested)}
LoadedRequested == RequestedSet \cap DOMAIN period_data

\* The key tuples of the records of the loaded requested periods.
LoadedKeys ==
    UNION {{GroupKey(period_data[p][i]) : i \in 1..Len(period_data[p])} : p \in LoadedRequested}

\* C11: the aggregation runs over the requested periods the input mapping
\* has: the combined collection holds the keys of their records and no others,
\* and it is the empty collection when none of the requested periods is in
\* the mapping.
C11_AbsentPeriodsSkipped ==
    apc = "done" =>
        /\ {GroupKey(combined[j]) : j \in 1..Len(combined)} = LoadedKeys
        /\ LoadedRequested = {} => combined = <<>>

\* An aggregation ran with one requested period absent and another present.
C11_PeriodAbsent ==
    /\ apc = "done"
    /\ RequestedSet \ DOMAIN period_data # {}
    /\ LoadedRequested # {}
    /\ combined # <<>>

-----------------------------------------------------------------------------
(* Properties of the sub-scores *)

\* The latest call returned.
Returned == call.made /\ ~call.raised

\* The field of the row of the latest call, Missing where the row lacks it.
Field(f) == IF f \in DOMAIN call.row THEN call.row[f] ELSE Missing

\* The number instagram_followers parses to, where it is a text that parses.
Followers == ParseFloat(RemoveChar(Field("instagram_followers").s, "M"))
FollowersParsed ==
    /\ Field("instagram_followers").t = "str"
    /\ Field("instagram_followers") \notin {Str("N/A"), Str("")}
    /\ Followers.ok

\* C12: the social sub-score is 10, 8, 6, 4, 2 for a parsed number above 300,
\* 100, 50, 10, 1, it is 1 for any other parsed number, and 0 for an absent,
\* 'N/A' or unparseable value.
C12_InstagramTiers ==
    Returned =>
        call.points.instagram =
           IF ~FollowersParsed THEN 0
           ELSE IF ParsedGreater(Followers, 300) THEN 10
           ELSE IF ParsedGreater(Followers, 100) THEN 8
           ELSE IF ParsedGreater(Followers, 50) THEN 6
           ELSE IF ParsedGreater(Followers, 10) THEN 4
           ELSE IF ParsedGreater(Followers, 1) THEN 2
           ELSE 1

\* A follower count on a tier bound was scored.
C12_TierBoundScored ==
    /\ Returned
    /\ Field("instagram_followers") = Str("300M")
    /\ call.points.instagram = 8

\* The points of one trophy, as the table of the trophies states them.
TrophyValue(trophy) ==
    CASE Contains(trophy, "World Cup") -> 10
      [] Contains(trophy, "Champions League") -> 9
      [] Contains(trophy, "Ballon d'Or") -> 10
      [] Contains(trophy, "Euros") \/ Contains(trophy, "Copa America") -> 6
      [] Contains(trophy, "NBA Championship") -> 8
      [] OTHER -> 0

\* Twice the trophy sub-score the rule gives a value of major_trophies: for a
\* list min(10, total / 2), for a missing, empty or ['N/A'] list 0.
TrophyRule(trophies) ==
    IF trophies \in {Missing, NaN, None, List(<<>>), List(<<"N/A">>)} THEN 0
    ELSE Min(20, SumSeq([i \in 1..Len(trophies.q) |-> TrophyValue(trophies.q[i])]))

TrophiesListOrMissing == Field("major_trophies").t \in {"list", "missing", "nan", "none"}

\* C13: for a trophy list, or a missing one, the call returns with the trophy
\* sub-score min(10, total / 2) of the per-trophy points, which is 0 for a
\* missing, empty or ['N/A'] list.
C13_TrophyPoints ==
    call.made /\ TrophiesListOrMissing /\ Field("previous_teams").t = "list" =>
        ~call.raised /\ call.points.trophy = TrophyRule(Field("major_trophies"))

\* The trophy rule holds of every call that returns.
TrophyPointsWhereReturned ==
    Returned /\ TrophiesListOrMissing =>
        call.points.trophy = TrophyRule(Field("major_trophies"))

\* The team string the checks are made on: str(team), '' for a missing key.
TeamText == IF Field("team") = Missing THEN "" ELSE PyStr(Field("team"))

\* C14: the current-team sub-score is 10 for a team string with an elite-club
\* name, else 7 for one with a top-club name, else 3 for one with 'Retired',
\* else 5, a missing team included.
C14_TeamPriority ==
    Returned =>
        call.points.team =
           IF \E club \in elite_clubs : Contains(TeamText, club) THEN 10
           ELSE IF \E club \in top_clubs : Contains(TeamText, club) THEN 7
           ELSE IF Contains(TeamText, "Retired") THEN 3
           ELSE 5

\* A team string with an elite-club name and 'Retired' was scored 10.
C14_RetiredEliteScored ==
    /\ Returned
    /\ Field("team") = Str("Retired (Real Madrid)")
    /\ call.points.team = 10

\* The previous-teams sub-score the rule gives a value of previous_teams:
\* 2 per entry with an elite-club name, 1 per remaining entry with a top-club
\* name, capped at 10; 0 for an empty or missing list.
PrevTeamRule(teams) ==
    IF teams \in {Missing, NaN, None} THEN 0
    ELSE LET elite == {i \in 1..Len(teams.q) : ContainsAny(teams.q[i], elite_clubs)}
             top == {i \in 1..Len(teams.q) : ContainsAny(teams.q[i], top_clubs)} \ elite
         IN Min(10, 2 * Cardinality(elite) + Cardinality(top))

PrevTeamsListOrMissing == Field("previous_teams").t \in {"list", "missing", "nan", "none"}

\* C15: for a list of previous teams, or a missing one, the call returns with
\* the previous-teams sub-score min(10, 2 x elite entries + remaining top
\* entries), which is 0 for an empty or missing list and never above 10.
C15_PrevTeamPoints ==
    call.made /\ PrevTeamsListOrMissing /\ Field("major_trophies").t = "list" =>
        /\ ~call.raised
        /\ call.points.prev_team = PrevTeamRule(Field("previous_teams"))
        /\ call.points.prev_team <= 10

\* The previous-teams rule holds of every call that returns.
PrevTeamPointsWhereReturned ==
    Returned /\ PrevTeamsListOrMissing =>
        /\ call.points.prev_team = PrevTeamRule(Field("previous_teams"))
        /\ call.points.prev_team <= 10

\* The age sub-score the rule gives a value of age.
AgeRule(age) ==
    CASE age.t = "num" /\ 24 <= age.n /\ age.n <= 32 -> 10
      [] age.t = "num" /\ 18 <= age.n /\ age.n <= 23 -> 8
      [] age.t = "num" /\ 33 <= age.n /\ age.n <= 38 -> 6
      [] age.t = "num" /\ (age.n < 18 \/ age.n > 38) -> 3
      [] age.t = "str" /\ Contains(age.s, "Deceased") -> 4
      [] OTHER -> 0

\* C16: the age sub-score is 10 for 24 to 32, 8 for 18 to 23, 6 for 33 to 38,
\* 3 for any other numeric age, 4 for an age with the 'Deceased' marker, and 0
\* for an unparseable or absent age.
C16_AgeBands == Returned => call.points.age = AgeRule(Field("age"))

\* The age rule holds of every call whose row has an age other than NaN.
AgeBandsWherePresent ==
    Returned /\ Field("age") \notin {Missing, NaN} => call.points.age = AgeRule(Field("age"))

\* An absent age is scored like a numeric age outside the bands.
AbsentAgeScoredThree ==
    Returned /\ Field("age") \in {Missing, NaN} => call.points.age = 3

\* The position string, '' for a missing key.
PositionText == IF Field("position") = Missing THEN "" ELSE PyStr(Field("position"))

\* The position names one of the codes.
Plays(codes) == \E code \in codes : Contains(PositionText, code)

\* C17: the position sub-score is 5 for a profile whose sport is not Football;
\* for a football profile it is 10 for ST, CF, RW, LW, 8 for AM, CAM, 6 for CM,
\* 4 for CB, RB, LB, 3 for GK and 5 for any other or missing position.
C17_PositionPoints ==
    Returned =>
        call.points.position =
           IF Field("sport") # Str("Football") THEN 5
           ELSE IF Plays({"ST", "CF", "RW", "LW"}) THEN 10
           ELSE IF Plays({"AM", "CAM"}) THEN 8
           ELSE IF Plays({"CM"}) THEN 6
           ELSE IF Plays({"CB", "RB", "LB"}) THEN 4
           ELSE IF Plays({"GK"}) THEN 3
           ELSE 5

\* A forward of another sport than football was scored 5.
C17_NonFootballForward ==
    /\ Returned
    /\ Field("sport") = Str("Basketball")
    /\ Field("position") = Str("ST")
    /\ call.points.position = 5

\* The volumes above the volume of the latest call.
LargerVolumes ==
    {VolumeOptions[i] : i \in 1..Len(VolumeOptions)} \ (-1000000..call.vol.n)

\* C18: the search sub-score is min(10, volume / 1,000,000) for a supplied
\* volume above 0 and 0 otherwise, it contributes between 0 and 2.5 to the
\* score, and a larger volume for the same profile never gives a lower score.
C18_SearchPoints ==
    Returned =>
        /\ call.points.search =
             IF call.vol.t = "num" /\ call.vol.n > 0
             THEN (IF call.vol.n < 10 * 1000000 THEN call.vol.n ELSE 10 * 1000000)
             ELSE 0
        /\ 0 <= search_weight * call.points.search
        /\ 2 * search_weight * call.points.search <= 5 * 100 * SearchUnit
        /\ \A v \in LargerVolumes :
              LET larger == ScorePoints(call.row, Num(v))
              IN /\ WeightedSum(larger) >= WeightedSum(call.points)
                 /\ WeightedSum(larger) > WeightedSum(call.points) =>
                       \A o \in calculate_opportunity_score(call.row, Num(v)) :
                           o.score >= call.score

\* A volume below the cap was scored, with larger volumes to compare with,
\* one of them above the cap.
C18_VolumeScored ==
    /\ Returned
    /\ call.vol = Num(5000000)
    /\ call.points.search = 5000000
    /\ {10000000, 12000000} \subseteq LargerVolumes

-----------------------------------------------------------------------------
(* Properties of the cached loaders *)

\* C19: a call of a cached loader made less than 3600 seconds after its entry
\* was stored returns the stored result without a fetch; a fetch is made only
\* by the first call and by a call made after the entry has expired.
C19_CachedWithinTtl ==
    last_call.made =>
        /\ last_call.had /\ last_call.at - last_call.stored < 3600 =>
              ~last_call.fetched /\ last_call.same
        /\ last_call.fetched =>
              ~last_call.had \/ last_call.at - last_call.stored >= 3600

\* A call within the TTL returned the stored result although the URL serves
\* something else by now.
C19_StaleResultReturned ==
    /\ last_call.made /\ last_call.had /\ ~last_call.fetched
    /\ last_call.at - last_call.stored = 2400
    /\ last_call.same /\ ~last_call.served

-----------------------------------------------------------------------------
(* Properties of find_google_volume *)

\* One name holds the other, whatever the case of the letters.
NamesOverlap(a, b) == Contains(Lower(a), Lower(b)) \/ Contains(Lower(b), Lower(a))

\* The listed names that match the profile name in the second stage.
Overlapping(name) == {n \in DOMAIN google_volumes_map : NamesOverlap(n, name)}

\* C20: the volume of a profile is the volume listed under its exact name when
\* there is one; otherwise the volume of a listed name that holds the profile
\* name or is held by it, whatever the case; it is 0 only when neither matches.
C20_TwoStageResolver ==
    pc \in {"volumes", "scored"} =>
        \A i \in 1..Len(all_players_df) :
            LET name == all_players_df[i]["name"].s
                volume == all_players_df[i]["google_search_volume"]
            IN /\ name \in DOMAIN google_volumes_map => volume = Num(google_volumes_map[name])
               /\ name \notin DOMAIN google_volumes_map /\ Overlapping(name) # {} =>
                     \E n \in Overlapping(name) : volume = Num(google_volumes_map[n])
               /\ volume = Num(0) => Overlapping(name) = {}

\* Where the exact name is listed, its volume is the one found.
ExactNameFound ==
    pc \in {"volumes", "scored"} =>
        \A i \in 1..Len(all_players_df) :
            all_players_df[i]["name"].s \in DOMAIN google_volumes_map =>
                all_players_df[i]["google_search_volume"] =
                    Num(google_volumes_map[all_players_df[i]["name"].s])


-----------------------------------------------------------------------------
(* The sidebar filters *)

\* The table load_csv_data returned for the served file.
LoadedTable == load_csv_data(csv_source).df

FilterStepDone == fpc \in {"sidebar", "main", "status", "merch", "filtered"}
MainFilterDone == fpc \in {"main", "status", "merch", "filtered"}

\* C21 (as amended): no filter step changes the loaded table: after every
\* step df holds the rows and values load_csv_data returned. Every step that
\* applies a mask yields a new table; with status 'All' status_filtered_df is
\* df itself (line 150) and not a new table.
C21_LoadedTableUnchanged ==
    FilterStepDone =>
        /\ df = LoadedTable
        /\ (objects.status_filtered_df = "df") <=> (selected.selected_status = "All")
        /\ objects.status_filtered_df # "df" => objects.status_filtered_df = "line 146-148"
        /\ MainFilterDone => objects.filtered_df \in {"line 214", "line 224-226", "line 237", "line 240"}

\* C21 as stated: df is unchanged and every step yields a new derived
\* table, status_filtered_df included.
C21_EveryStepNewTable ==
    FilterStepDone =>
        /\ df = LoadedTable
        /\ objects.status_filtered_df # "df"
        /\ MainFilterDone => objects.filtered_df # "df"

\* Every filter has been applied and has removed rows, some rows remain.
C21_AllFiltersApplied ==
    /\ fpc = "filtered"
    /\ selected.selected_status = "Signed"
    /\ objects.status_filtered_df = "line 146-148"
    /\ objects.filtered_df = "line 240"
    /\ Len(status_filtered_df.rows) < Len(df.rows)
    /\ Len(filtered_df.rows) > 0
    /\ Len(filtered_df.rows) < Len(df.rows)
    /\ df = LoadedTable

RowSet(frame) == {frame.rows[r] : r \in 1..Len(frame.rows)}

IsMerchandise(row) == row["search_type"] = Str("Merchandise")

\* The merchandise-category filter is active and the row fails it.
FailsMerchFilter(row, selection) ==
    /\ IsMerchandise(row)
    /\ Str("Merchandise") \in selection.selected_search_types
    /\ selection.selected_merch_categories # {}
    /\ row["merch_category"] \notin selection.selected_merch_categories

\* C24: the merchandise-category filter never removes a non-Merchandise row,
\* removes a Merchandise row only when 'Merchandise' is a selected search
\* type, the selected category set is non-empty and the row's category is not
\* in it, and with an empty selected category set removes no row at all.
C24_MerchFilterRemoves ==
    [][(fpc = "status" /\ fpc' = "merch") =>
         /\ RowSet(filtered_df') \subseteq RowSet(filtered_df)
         /\ \A row \in RowSet(filtered_df) \ RowSet(filtered_df') :
                FailsMerchFilter(row, selected)
         /\ \A row \in RowSet(filtered_df) :
                ~IsMerchandise(row) => row \in RowSet(filtered_df')
         /\ selected.selected_merch_categories = {} => filtered_df' = filtered_df]_vars

\* The row passes the filters of lines 214-226.
PassesMainAndStatus(row, selection) ==
    /\ row["country"] \in selection.selected_countries
    /\ row["actual_player"] \in selection.selected_players
    /\ row["search_type"] \in selection.selected_search_types
    /\ row["july_2025_volume"].n >= selection.volume_range[1]
    /\ row["july_2025_volume"].n <= selection.volume_range[2]
    /\ \/ selection.selected_status = "All"
       \/ row["status"] = Str(Lower(selection.selected_status))

\* The merchandise filter has run: it removed a Merchandise row of a category
\* that is not selected, and kept a Merchandise row and another row.
C24_MerchRowRemoved ==
    /\ fpc = "merch"
    /\ objects.filtered_df = "line 237"
    /\ \E row \in RowSet(df) \ RowSet(filtered_df) :
          PassesMainAndStatus(row, selected) /\ FailsMerchFilter(row, selected)
    /\ \E row \in RowSet(filtered_df) : IsMerchandise(row)
    /\ \E row \in RowSet(filtered_df) : ~IsMerchandise(row)

\* The row satisfies every active filter.
PassesAll(row, selection) ==
    /\ PassesMainAndStatus(row, selection)
    /\ ~FailsMerchFilter(row, selection)
    /\ selection.only_with_volume => row["has_volume"] = Num(1)

RECURSIVE RowsPassing(_, _)
RowsPassing(rows, selection) ==
    IF rows = <<>> THEN <<>>
    ELSE (IF PassesAll(Head(rows), selection) THEN <<Head(rows)>> ELSE <<>>)
         \o RowsPassing(Tail(rows), selection)

\* C25: filtered_df is exactly the rows of df that satisfy every active
\* filter: country, player and search type among the selected ones, volume
\* within the selected range with both ends included, status equal to the
\* selected status unless 'All', the merchandise-category filter, and
\* has_volume = 1 when only-with-volume is checked.
C25_FilteredExactly ==
    fpc = "filtered" => filtered_df.rows = RowsPassing(df.rows, selected)

\* Every filter is active, a row at the lower end of the volume range is
\* kept and other rows are removed.
C25_RowAtRangeEndKept ==
    /\ fpc = "filtered"
    /\ selected.selected_status = "Signed"
    /\ selected.only_with_volume
    /\ Str("Merchandise") \in selected.selected_search_types
    /\ selected.selected_merch_categories # {}
    /\ \E row \in RowSet(filtered_df) : row["july_2025_volume"].n = selected.volume_range[1]
    /\ Len(filtered_df.rows) < Len(df.rows)

-----------------------------------------------------------------------------
(* Failures of the cached loaders *)

BodyFailed == last_call.made /\ last_call.fetched /\ last_call.error # ""

\* C22: no failure while fetching or parsing the CSV or the player JSON leaves
\* a loader as an exception: the loader reports a message and returns an empty
\* table (load_csv_data) or an empty map (load_player_details), whatever the
\* failure, a missing volume column and a profile without a name included.
C22_NoFailureEscapes ==
    BodyFailed =>
        /\ ~last_call.raised
        /\ last_call.empty
        /\ last_call.message # ""

\* load_player_details ran on a document with a profile that has no name.
C22_NamelessProfileServed ==
    /\ BodyFailed
    /\ last_call.loader = "load_player_details"
    /\ last_call.error = "'name'"
    /\ last_call.empty

\* load_csv_data ran on a table without the volume column.
C22_VolumeColumnMissing ==
    /\ BodyFailed
    /\ last_call.loader = "load_csv_data"
    /\ last_call.error = "'july_2025_volume'"
    /\ last_call.empty

CsvCalled == last_call.made /\ last_call.loader = "load_csv_data"

\* C23: a failed fetch is cached like a success: the empty table
\* load_csv_data returns when its fetch fails is stored, every call made less
\* than 3600 seconds later returns the empty table without a fetch, whatever
\* the URL serves by then, and a new fetch is made only once the entry has
\* expired.
C23_FailureCached ==
    CsvCalled =>
        /\ last_call.fetched /\ last_call.error # "" =>
              cache["load_csv_data"] =
                  [cached |-> TRUE, at |-> last_call.at, value |-> EmptyFrame,
                   message |-> last_call.error]
        /\ last_call.held_empty /\ last_call.at - last_call.stored < 3600 =>
              ~last_call.fetched /\ last_call.empty
        /\ last_call.held_empty /\ last_call.fetched =>
              last_call.at - last_call.stored >= 3600

\* The empty table of a failed fetch was returned within the TTL, without a
\* fetch, although the URL serves a good table by then.
C23_EmptyTableServedAgain ==
    /\ CsvCalled
    /\ last_call.held_empty /\ ~last_call.fetched /\ last_call.empty
    /\ last_call.at - last_call.stored = 2400
    /\ last_call.available

-----------------------------------------------------------------------------
(* Ranks of the Opportunity Scores tab *)

\* The rows of the frame that carry the name of a profile.
RowsOf(profile) == {i \in 1..Len(all_players_df) : all_players_df[i]["name"] = profile["name"]}

\* Every profile has one row, with a score and a rank; the ranks are 1..N
\* from the first row to the last and the scores do not increase.
RankedOneToN ==
    /\ \A p \in 1..Len(player_dict) :
          /\ Cardinality(RowsOf(player_dict[p])) = 1
          /\ \A i \in RowsOf(player_dict[p]) :
                {"opportunity_score", "rank"} \subseteq DOMAIN all_players_df[i]
    /\ {all_players_df[i]["rank"] : i \in 1..Len(all_players_df)} = 1..Len(player_dict)
    /\ \A i, j \in 1..Len(all_players_df) :
          all_players_df[i]["rank"] < all_players_df[j]["rank"] =>
              all_players_df[i]["opportunity_score"] >= all_players_df[j]["opportunity_score"]

\* The display filters only remove rows: every row they keep is a row of
\* all_players_df, with the rank it has there.
FiltersOnlyRemove ==
    \A k \in 1..Len(filtered_players) :
        \E i \in 1..Len(all_players_df) : filtered_players[k] = all_players_df[i]

TabDone == pc \in {"error", "displayed"}

\* C26: whenever the player map is not empty, every profile in it gets exactly
\* one opportunity score and one rank, the ranks are exactly 1..N in the order
\* of non-increasing score, and the display filters only remove rows and leave
\* the rank of every remaining player as it is.
C26_EveryProfileRanked ==
    TabDone /\ player_dict # <<>> =>
        /\ RankedOneToN
        /\ pc = "displayed" => FiltersOnlyRemove

\* Where every profile was scored, the ranks are as C26 says.
RankedWhereScored ==
    pc \in {"ranked", "displayed"} =>
        /\ RankedOneToN
        /\ pc = "displayed" => FiltersOnlyRemove

\* The filters removed the player of rank 1 and kept the player of rank 2.
SecondRankKept ==
    /\ pc = "displayed"
    /\ Len(all_players_df) = 2
    /\ Len(filtered_players) = 1
    /\ filtered_players[1]["rank"] = 2

\* The scoring of a profile raised: no profile has a score or a rank.
NothingRanked ==
    /\ pc = "error"
    /\ player_dict # <<>>
    /\ call.made /\ call.raised
    /\ "rank" \notin Columns(all_players_df)
====
